---- MODULE Spec2Model ----
(***************************************************************************)
(* Model of the mailing scheduler of xOnnep/Midas: the worker loop of      *)
(* app/task_runner.py (_worker, _run_one_task), the runner API             *)
(* (start_runner, stop_runner, _wake_worker, run_one_send_test) and the    *)
(* operator commands of app/bot.py that write the task rows.               *)
(*                                                                         *)
(* Every `async with session_factory()` block is one atomic step: the row  *)
(* is loaded, mutated and committed in one transaction.  The awaits        *)
(* between the blocks (connect, dispatch, cooldown, timed waits) are the   *)
(* points where operator commands interleave with the loop.                *)
(***************************************************************************)
EXTENDS Integers, Sequences, FiniteSets, TLC

\* ---------------------------------------------------------------- bounds
NumTasks == 2
MaxWorkers == 2
MaxDispatch == 2
MaxOps == 3
MaxLimit == 2
MaxDay == 2

TaskIds == 1..NumTasks
WorkerIds == 1..MaxWorkers
AccountIds == {1}
LimitValues == 0..MaxLimit
\* what int() accepts at a limits step
LimitInputs == -1..MaxLimit
ChatChoices == {<< >>, <<"@a">>}

\* interval_min_sec / interval_max_sec: the column default and the floor
\* that _worker applies
DefaultInterval == 900
MinInterval == 20

\* the interval range the bot accepts, and the one-number shorthand for
\* "every 15 minutes"
MaxInterval == 900
QuarterHour == 15

\* NULL of a nullable DateTime column (timestamps and dates count from 1)
IsNull(x) == x = 0
NullText == "NULL"

VARIABLES
    tasks,      \* mailing_tasks rows: a function from the ids of the stored rows
    accounts,   \* telegram_sessions rows
    sendLog,    \* send_logs rows, in insertion order
    errorLog,   \* error_logs rows, in insertion order
    running,    \* task_runner._running
    event,      \* task_runner._tasks_event: [id, isSet]
    wk,         \* the _worker coroutines created so far
    test,       \* the operator's run_one_send_test call, if one is in flight
    now,        \* datetime.utcnow() as a logical timestamp
    utcDay,     \* datetime.utcnow().date()
    localDay,   \* date.today()
    dispatched, \* cycles that reached the dispatch gateway (bounds the run)
    nops,       \* operator commands issued (bounds the run)
    hist        \* history: wakeReq, the task of a startTask no timed wait has
                \* answered yet; wokeFor, the task started during the inter-send
                \* wait of another task (0: none); fresh, the ids of the
                \* rows created since Init that no startTask has named yet

vars == <<tasks, accounts, sendLog, errorLog, running, event, wk, test,
          now, utcDay, localDay, dispatched, nops, hist>>

store == <<tasks, accounts, sendLog, errorLog>>
clock == <<now, utcDay, localDay>>

\* ----------------------------------------------------------------- rows
NewTask(chats) ==
    [ session_id      |-> 1,
      target_chat_ids |-> chats,
      message_type    |-> "text",
      forward_source  |-> 0,
      interval_min_sec |-> DefaultInterval,
      interval_max_sec |-> DefaultInterval,
      daily_limit     |-> 0,
      total_limit     |-> 0,
      status          |-> "paused",
      error_message   |-> NullText,
      sent_today      |-> 0,
      sent_total      |-> 0,
      last_sent_at    |-> 0,
      last_reset_at   |-> 0 ]

NoRow == NewTask(<< >>)

IdleWorker ==
    [ pc      |-> "none",     \* position in _worker / _run_one_task
      task_id |-> 0,          \* the id the cycle selected
      task    |-> NoRow,      \* the row object the gate loaded (used by the dispatch)
      chat_id |-> "",         \* random.choice(chat_ids)
      success |-> FALSE,      \* (success, msg) of the dispatch
      msg     |-> "",
      client  |-> FALSE,      \* a connected TelegramClient is held
      waitOn  |-> 0,          \* the Event object the timed wait blocks on
      woken   |-> FALSE,      \* how the last timed wait returned: by the event
      delay   |-> 0,          \* the timeout of the inter-send wait (0: none computed)
      exc     |-> "none",     \* the exception that ended the coroutine
      wokeSel |-> 0,          \* history: the task whose start ended the wait before
                              \* this cycle
      gate    |-> "none",     \* history: how the pre-send gate ended ("pass", or
                              \* what it returned for: "row", "daily", "total", "targets")
      calls   |-> 0,          \* history: gateway calls of this cycle
      nSent   |-> 0,          \* history: messages the gateway transmitted in this cycle
      floods  |-> 0,          \* history: FloodWaitErrors of this cycle
      nSend   |-> 0,          \* history: SendLog rows of this cycle
      nErr    |-> 0 ]         \* history: ErrorLog rows of this cycle

SendLogRow(tid, chat, ok, m) ==
    [task_id |-> tid, chat_id |-> chat, success |-> ok, message |-> m]

ErrorLogRow(tid, m, d) ==
    [task_id |-> tid, level |-> "error", message |-> m, details |-> d]

\* ------------------------------------------------------ pure functions
\* get_target_chat_ids: json.loads of what set_target_chat_ids dumped
get_target_chat_ids(task) == task.target_chat_ids

\* _need_reset_daily: date.today() > task.last_reset_at.date()
need_reset_daily(task, today) ==
    IF IsNull(task.last_reset_at) THEN TRUE ELSE today > task.last_reset_at

\* variant: the reset is never made
reset_daily_if_needed_Never(task, today, utcToday) == task

\* _reset_daily_if_needed: the row after the (committed) reset
reset_daily_if_needed(task, today, utcToday) ==
    IF need_reset_daily(task, today)
    THEN [task EXCEPT !.sent_today = 0, !.last_reset_at = utcToday]
    ELSE task

\* variant: ORDER BY id only
OrderBefore_ById(ts, a, b) == a < b

\* ORDER BY last_sent_at ASC, id ASC (SQLite: NULL sorts before every value)
OrderBefore(ts, a, b) ==
    LET x == ts[a].last_sent_at
        y == ts[b].last_sent_at
    IN  \/ IsNull(x) /\ ~IsNull(y)
        \/ ~IsNull(x) /\ ~IsNull(y) /\ x < y
        \/ x = y /\ a < b

\* variant: the query has no WHERE clause
ActiveIds_AnyStatus(ts) == DOMAIN ts

ActiveIds(ts) == {t \in DOMAIN ts : ts[t].status = "active"}

\* the SELECT ... WHERE status = 'active' ORDER BY ... LIMIT 1 of _worker
SelectTask(ts) ==
    CHOOSE a \in ActiveIds(ts) : \A b \in ActiveIds(ts) \ {a} : OrderBefore(ts, a, b)

\* ---------------------------------------------------------- intervals
\* what the operator types at an interval step, as the numbers of
\* text.split()
IntervalInputs ==
    {<< >>, <<15>>, <<19>>, <<20>>, <<901>>, <<30, 20>>, <<20, 901>>,
     <<19, 30>>, <<900, 900, 5>>}

Rejected == <<0, 0>>

\* variant: the two numbers are stored without the range check
parse_interval_Unchecked(parts) ==
    IF Len(parts) = 1
    THEN <<parts[1], parts[1]>>
    ELSE IF Len(parts) >= 2
    THEN <<parts[1], parts[2]>>
    ELSE Rejected

\* the interval steps of /newtask and /edittask: <<interval_min,
\* interval_max>> or Rejected
parse_interval(parts) ==
    IF Len(parts) = 1
    THEN LET n == parts[1] IN
         IF n = QuarterHour THEN <<MaxInterval, MaxInterval>>
         ELSE IF MinInterval <= n /\ n <= MaxInterval THEN <<n, n>>
         ELSE Rejected
    ELSE IF Len(parts) >= 2
    THEN LET a == parts[1]
             b == parts[2]
         IN  IF /\ MinInterval <= a /\ a <= MaxInterval
                /\ MinInterval <= b /\ b <= MaxInterval
             THEN <<IF a < b THEN a ELSE b, IF a < b THEN b ELSE a>>
             ELSE Rejected
    ELSE Rejected

\* variant: the default interval whatever the row says
interval_bounds_Default(t) == <<DefaultInterval, DefaultInterval>>

\* interval_min, interval_max of _worker
interval_bounds(t) ==
    LET lo == IF MinInterval > t.interval_min_sec THEN MinInterval
              ELSE t.interval_min_sec
        hi == IF lo > t.interval_max_sec THEN lo ELSE t.interval_max_sec
    IN  <<lo, hi>>

\* random.uniform(interval_min, interval_max): both ends and the middle
DelayChoices(lo, hi) == {lo, (lo + hi) \div 2, hi}

\* ------------------------------------------------- the content filter
\* Texts are sequences of one-character strings.  Cyrillic letters are
\* written as tokens ("<sh>" for the small letter sha, "<SH>" for the capital).
UpperChars == <<"S", "H", "E", "R", "L", "O", "C", "K", "B", "T",
                "<SH>", "<E>", "<R>", "<L>", "<O>", "<K>", "<B>", "<T>">>
LowerChars == <<"s", "h", "e", "r", "l", "o", "c", "k", "b", "t",
                "<sh>", "<e>", "<r>", "<l>", "<o>", "<k>", "<b>", "<t>">>

\* str.lower(), one character
LowerChar(ch) ==
    IF \E i \in 1..Len(UpperChars) : UpperChars[i] = ch
    THEN LowerChars[CHOOSE i \in 1..Len(UpperChars) : UpperChars[i] = ch]
    ELSE ch

\* str.lower()
Lower(text) == [i \in 1..Len(text) |-> LowerChar(text[i])]

\* `phrase in text`
Contains(text, phrase) ==
    \E i \in 0..(Len(text) - Len(phrase)) :
        SubSeq(text, i + 1, i + Len(phrase)) = phrase

FORWARD_BLOCKLIST ==
    << <<"<sh>", "<e>", "<r>", "<l>", "<o>", "<k>">>,
       <<"s", "h", "e", "r", "l", "o", "c", "k">>,
       <<"<b>", "<o>", "<t>", " ", "<sh>", "<e>", "<r>", "<l>", "<o>", "<k>">>,
       <<"s", "h", "e", "r", "l", "o", "c", "k", " ", "b", "o", "t">> >>

\* variant: the text is compared as it is written
is_blocked_CaseSensitive(text_to_check) ==
    \E k \in 1..Len(FORWARD_BLOCKLIST) :
        Contains(text_to_check, FORWARD_BLOCKLIST[k])

\* the blocklist loop of send_or_forward_one
is_blocked(text_to_check) ==
    LET text_lower == Lower(text_to_check) IN
    \E k \in 1..Len(FORWARD_BLOCKLIST) :
        Contains(text_lower, Lower(FORWARD_BLOCKLIST[k]))

\* _collect_text(m)
collect_text(m) == m.text \o <<" ">> \o m.message

\* " ".join(texts)
JoinTexts(texts) ==
    LET RECURSIVE J(_)
        J(i) == IF i > Len(texts) THEN << >>
                ELSE IF i = Len(texts) THEN texts[i]
                ELSE texts[i] \o <<" ">> \o J(i + 1)
    IN  J(1)

\* ------------------------------------------- the source chat (Telegram)
\* The messages of the chat a forward source points into, by message id:
\* message 1 stands alone, messages 2..4 are one album (grouped_id 7) whose
\* second message names the blocked phrase in mixed case.  Other ids do not
\* exist.
SourceChat ==
    << [grouped_id |-> 0, text |-> <<"h", "i">>, message |-> <<"h", "i">>],
       [grouped_id |-> 7, text |-> <<"a">>, message |-> <<"a">>],
       [grouped_id |-> 7, text |-> <<"S", "h", "e", "r", "L", "o", "c", "k">>,
                          message |-> <<"S", "h", "e", "r", "L", "o", "c", "k">>],
       [grouped_id |-> 7, text |-> <<"b">>, message |-> <<"b">>] >>

\* the forward_source values a row can hold: 0 is NULL, MissingMessage the
\* id of a message that is no longer in the chat
MissingMessage == Len(SourceChat) + 1
ForwardSources == {0, 1, 2, 3, MissingMessage}

\* the ids the forward sends: the album of the source message, sorted by id,
\* or the message alone
message_ids(msg_id) ==
    IF SourceChat[msg_id].grouped_id # 0
    THEN LET group == {i \in 1..Len(SourceChat) :
                         /\ i > msg_id - 25 /\ i < msg_id + 25
                         /\ SourceChat[i].grouped_id = SourceChat[msg_id].grouped_id}
             RECURSIVE Sorted(_)
             Sorted(g) == IF g = {} THEN << >>
                          ELSE LET m == CHOOSE x \in g : \A y \in g : x <= y
                               IN  <<m>> \o Sorted(g \ {m})
         IN  Sorted(group)
    ELSE <<msg_id>>

\* text_to_check of the forward branch
text_to_check(msg_id) ==
    LET ids == message_ids(msg_id) IN
    IF SourceChat[msg_id].grouped_id # 0
    THEN JoinTexts([i \in 1..Len(ids) |-> collect_text(SourceChat[ids[i]])])
    ELSE collect_text(SourceChat[msg_id])

BlockedReason == "content in block list"

\* the outcomes send_or_forward_one can have for a row and a target:
\* (True, "OK"), (False, reason), or FloodWaitError raised; `sent` counts the
\* messages the call transmitted
DispatchOutcomes(task, chat) ==
    LET early == {[kind |-> "fail", msg |-> "rpc error", sent |-> 0],
                  [kind |-> "flood", msg |-> "FloodWait", sent |-> 0]}
    IN
    IF task.message_type = "forward"
    THEN LET src == task.forward_source IN
         IF src = 0
         THEN early \cup {[kind |-> "fail", msg |-> "forward_source not set", sent |-> 0]}
         ELSE IF src \notin 1..Len(SourceChat)
         THEN early \cup {[kind |-> "fail", msg |-> "source message not found", sent |-> 0]}
         ELSE IF is_blocked(text_to_check(src))
         THEN early \cup {[kind |-> "fail", msg |-> BlockedReason, sent |-> 0]}
         ELSE early \cup {[kind |-> "ok", msg |-> "OK", sent |-> Len(message_ids(src))]}
    ELSE IF task.message_type = "text"
    THEN early \cup {[kind |-> "ok", msg |-> "OK", sent |-> 1]}
    ELSE {[kind |-> "fail", msg |-> "Unknown message_type", sent |-> 0]}

\* --------------------------------------------------------------- Init
Init ==
    /\ tasks = [t \in TaskIds |-> NewTask(<<"@a">>)]
    /\ accounts = [a \in AccountIds |-> [is_active |-> TRUE]]
    /\ sendLog = << >>
    /\ errorLog = << >>
    /\ running = TRUE
    /\ event = [id |-> 1, isSet |-> FALSE]
    /\ wk = [w \in WorkerIds |-> IF w = 1 THEN [IdleWorker EXCEPT !.pc = "select"]
                                 ELSE IdleWorker]
    /\ test = [pc |-> "idle", task_id |-> 0]
    /\ now = 1
    /\ utcDay = 1
    /\ localDay = 1
    /\ dispatched = 0
    /\ nops = 0
    /\ hist = [wakeReq |-> 0, wokeFor |-> 0, fresh |-> {}]

\* the program started on an empty mailing_tasks table
InitEmpty ==
    /\ tasks = [t \in {} |-> NoRow]
    /\ accounts = [a \in AccountIds |-> [is_active |-> TRUE]]
    /\ sendLog = << >>
    /\ errorLog = << >>
    /\ running = TRUE
    /\ event = [id |-> 1, isSet |-> FALSE]
    /\ wk = [w \in WorkerIds |-> IF w = 1 THEN [IdleWorker EXCEPT !.pc = "select"]
                                 ELSE IdleWorker]
    /\ test = [pc |-> "idle", task_id |-> 0]
    /\ now = 1
    /\ utcDay = 1
    /\ localDay = 1
    /\ dispatched = 0
    /\ nops = 0
    /\ hist = [wakeReq |-> 0, wokeFor |-> 0, fresh |-> {}]

\* ------------------------------------------------- the worker: _worker
Row(id) == tasks[id]
Stored(id) == id \in DOMAIN tasks

\* top of the loop: `while _running`, the staleness query, the idle branch
W_Select(w) ==
    /\ wk[w].pc = "select"
    /\ IF ~running
       THEN /\ wk' = [wk EXCEPT ![w].pc = "stopped"]
            /\ UNCHANGED <<event, hist>>
       ELSE /\ dispatched < MaxDispatch
            /\ IF ActiveIds(tasks) = {}
               THEN /\ event' = [event EXCEPT !.isSet = FALSE]
                    /\ wk' = [wk EXCEPT ![w].pc = "idle", ![w].waitOn = event.id]
                    /\ UNCHANGED hist
               ELSE /\ wk' = [wk EXCEPT ![w] =
                              [IdleWorker EXCEPT !.pc = "load",
                                                 !.task_id = SelectTask(tasks),
                                                 !.woken = wk[w].woken,
                                                 !.wokeSel = hist.wokeFor]]
                    /\ hist' = [hist EXCEPT !.wokeFor = 0]
                    /\ UNCHANGED event
    /\ UNCHANGED <<store, running, test, clock, dispatched, nops>>

\* asyncio.wait_for(_tasks_event.wait(), timeout): the event is set
WaitWake(w, place) ==
    /\ wk[w].pc = place
    /\ event.id = wk[w].waitOn /\ event.isSet
    /\ wk' = [wk EXCEPT ![w].pc = "select", ![w].woken = TRUE]
    /\ hist' = [hist EXCEPT !.wakeReq = 0]
    /\ UNCHANGED <<store, running, event, test, clock, dispatched, nops>>

\* variant: the timeout may elapse although the event is set
WaitTimeout_EventIgnored(w, place) ==
    /\ wk[w].pc = place
    /\ wk' = [wk EXCEPT ![w].pc = "select", ![w].woken = FALSE]
    /\ hist' = [hist EXCEPT !.wakeReq = 0]
    /\ UNCHANGED <<store, running, event, test, clock, dispatched, nops>>

\* asyncio.wait_for(...): the timeout elapses with the event unset
WaitTimeout(w, place) ==
    /\ wk[w].pc = place
    /\ ~(event.id = wk[w].waitOn /\ event.isSet)
    /\ wk' = [wk EXCEPT ![w].pc = "select", ![w].woken = FALSE]
    /\ hist' = [hist EXCEPT !.wakeReq = 0]
    /\ UNCHANGED <<store, running, event, test, clock, dispatched, nops>>

W_IdleWake(w) == WaitWake(w, "idle")
W_IdleTimeout(w) == WaitTimeout(w, "idle")
W_SleepWake(w) == WaitWake(w, "sleep")
W_SleepTimeout(w) == WaitTimeout(w, "sleep")

\* variant: the account row is not looked at
account_ok_Any(accs, sid) == TRUE

\* `ts and ts.is_active` for ts = db.get(TelegramSession, task.session_id)
account_ok(accs, sid) == sid \in DOMAIN accs /\ accs[sid].is_active

\* _run_one_task, first block: the row and its account
W_Load(w) ==
    /\ wk[w].pc = "load"
    /\ LET id == wk[w].task_id IN
       IF ~Stored(id) \/ Row(id).status # "active"
       THEN /\ wk' = [wk EXCEPT ![w].pc = "after"]
            /\ UNCHANGED tasks
       ELSE IF ~account_ok(accounts, Row(id).session_id)
       THEN /\ tasks' = [tasks EXCEPT ![id].status = "error",
                                      ![id].error_message = "session missing or disabled"]
            /\ wk' = [wk EXCEPT ![w].pc = "after"]
       ELSE /\ wk' = [wk EXCEPT ![w].pc = "connect"]
            /\ UNCHANGED tasks
    /\ UNCHANGED <<accounts, sendLog, errorLog, running, event, test, clock,
                   dispatched, nops, hist>>

\* create_client_for_session returns a connected, authorized client
W_ConnectOk(w) ==
    /\ wk[w].pc = "connect"
    /\ wk' = [wk EXCEPT ![w].pc = "gate", ![w].client = TRUE]
    /\ UNCHANGED <<store, running, event, test, clock, dispatched, nops, hist>>

\* create_client_for_session returns None (not authorized): the row is set to error
W_ConnectUnauthorized(w) ==
    /\ wk[w].pc = "connect"
    /\ LET id == wk[w].task_id IN
       tasks' = IF Stored(id)
                THEN [tasks EXCEPT ![id].status = "error",
                                   ![id].error_message = "could not connect"]
                ELSE tasks
    /\ wk' = [wk EXCEPT ![w].pc = "after"]
    /\ UNCHANGED <<accounts, sendLog, errorLog, running, event, test, clock,
                   dispatched, nops, hist>>

\* create_client_for_session re-raises the connection error: nothing in
\* _run_one_task or _worker catches it, the coroutine ends
W_ConnectRaises(w) ==
    /\ wk[w].pc = "connect"
    /\ wk' = [wk EXCEPT ![w].pc = "crashed", ![w].exc = "ConnectError"]
    /\ UNCHANGED <<store, running, event, test, clock, dispatched, nops, hist>>

\* variant: the gate checks only that the row exists
gate_row_ok_AnyStatus(ts, id) == id \in DOMAIN ts

\* `if not task or task.status != "active": return` of the pre-send gate
gate_row_ok(ts, id) == id \in DOMAIN ts /\ ts[id].status = "active"

\* variant: the daily limit is never looked at
daily_exhausted_Never(task) == FALSE

\* variant: > for >=
daily_exhausted_OffByOne(task) ==
    task.daily_limit # 0 /\ task.sent_today > task.daily_limit

\* `task.daily_limit and task.sent_today >= task.daily_limit`
daily_exhausted(task) == task.daily_limit # 0 /\ task.sent_today >= task.daily_limit

\* variant: the total limit is never looked at
total_reached_Never(task) == FALSE

\* variant: > for >=
total_reached_OffByOne(task) ==
    task.total_limit # 0 /\ task.sent_total > task.total_limit

\* `task.total_limit and task.sent_total >= task.total_limit`
total_reached(task) == task.total_limit # 0 /\ task.sent_total >= task.total_limit

\* _run_one_task, the pre-send gate: status, daily reset, limits, target
W_Gate(w) ==
    /\ wk[w].pc = "gate"
    /\ LET id   == wk[w].task_id
           done(why) == [wk EXCEPT ![w].pc = "after", ![w].client = FALSE,
                                   ![w].gate = why]
       IN
       IF ~gate_row_ok(tasks, id)
       THEN /\ wk' = done("row")
            /\ UNCHANGED <<tasks, dispatched>>
       ELSE
       LET task     == reset_daily_if_needed(Row(id), localDay, utcDay)
           chat_ids == get_target_chat_ids(task)
       IN
       IF daily_exhausted(task)
       THEN /\ tasks' = [tasks EXCEPT ![id] = task]
            /\ wk' = done("daily")
            /\ UNCHANGED dispatched
       ELSE IF total_reached(task)
       THEN /\ tasks' = [tasks EXCEPT ![id] = [task EXCEPT !.status = "completed"]]
            /\ wk' = done("total")
            /\ UNCHANGED dispatched
       ELSE IF chat_ids = << >>
       THEN /\ tasks' = [tasks EXCEPT ![id] = task]
            /\ wk' = done("targets")
            /\ UNCHANGED dispatched
       ELSE /\ tasks' = [tasks EXCEPT ![id] = task]
            /\ \E i \in 1..Len(chat_ids) :
                 wk' = [wk EXCEPT ![w].pc = "dispatch",
                                  ![w].task = task,
                                  ![w].chat_id = chat_ids[i],
                                  ![w].gate = "pass",
                                  ![w].calls = 1]
            /\ dispatched' = dispatched + 1
    /\ UNCHANGED <<accounts, sendLog, errorLog, running, event, test, clock,
                   nops, hist>>

\* the first send_or_forward_one returns (success, msg)
W_DispatchReturns(w) ==
    /\ wk[w].pc = "dispatch"
    /\ \E o \in DispatchOutcomes(wk[w].task, wk[w].chat_id) :
         /\ o.kind # "flood"
         /\ wk' = [wk EXCEPT ![w].pc = "post",
                             ![w].success = (o.kind = "ok"),
                             ![w].msg = o.msg,
                             ![w].nSent = @ + o.sent]
    /\ UNCHANGED <<store, running, event, test, clock, dispatched, nops, hist>>

\* the first send_or_forward_one raises FloodWaitError: _log_error, then the
\* cooldown sleep
W_DispatchFlood(w) ==
    /\ wk[w].pc = "dispatch"
    /\ \E o \in DispatchOutcomes(wk[w].task, wk[w].chat_id) : o.kind = "flood"
    /\ errorLog' = Append(errorLog, ErrorLogRow(wk[w].task_id, "FloodWait", "seconds"))
    /\ wk' = [wk EXCEPT ![w].pc = "cooldown",
                        ![w].floods = 1,
                        ![w].nErr = @ + 1]
    /\ UNCHANGED <<tasks, accounts, sendLog, running, event, test, clock,
                   dispatched, nops, hist>>

\* asyncio.sleep(e.seconds) ends: the retry is called
W_CooldownEnds(w) ==
    /\ wk[w].pc = "cooldown"
    /\ wk' = [wk EXCEPT ![w].pc = "retry", ![w].calls = @ + 1]
    /\ UNCHANGED <<store, running, event, test, clock, dispatched, nops, hist>>

\* the retry returns (success, msg)
W_RetryReturns(w) ==
    /\ wk[w].pc = "retry"
    /\ \E o \in DispatchOutcomes(wk[w].task, wk[w].chat_id) :
         /\ o.kind # "flood"
         /\ wk' = [wk EXCEPT ![w].pc = "post",
                             ![w].success = (o.kind = "ok"),
                             ![w].msg = o.msg,
                             ![w].nSent = @ + o.sent]
    /\ UNCHANGED <<store, running, event, test, clock, dispatched, nops, hist>>

\* the retry raises FloodWaitError inside the except clause: no sibling
\* clause catches it; `finally` disconnects and the error leaves
\* _run_one_task and _worker
W_RetryFlood(w) ==
    /\ wk[w].pc = "retry"
    /\ \E o \in DispatchOutcomes(wk[w].task, wk[w].chat_id) : o.kind = "flood"
    /\ wk' = [wk EXCEPT ![w].pc = "crashed",
                        ![w].exc = "FloodWaitError",
                        ![w].floods = @ + 1,
                        ![w].client = FALSE]
    /\ UNCHANGED <<store, running, event, test, clock, dispatched, nops, hist>>

\* variant: the counters move, last_sent_at does not
post_success_KeepsTimestamp(task, ts) ==
    [task EXCEPT !.sent_today = @ + 1, !.sent_total = @ + 1]

\* the row after the post-send update of a successful dispatch
post_success(task, ts) ==
    LET t1 == [task EXCEPT !.sent_today = @ + 1,
                           !.sent_total = @ + 1,
                           !.last_sent_at = ts]
    IN  IF total_reached(t1)
        THEN [t1 EXCEPT !.status = "completed"]
        ELSE t1

\* variant: a failed dispatch is counted like a sent one
post_failure_Counted(task, msg) ==
    [task EXCEPT !.error_message = msg, !.sent_today = @ + 1, !.sent_total = @ + 1]

\* the row after the post-send update of a failed dispatch
post_failure(task, msg) == [task EXCEPT !.error_message = msg]

\* _run_one_task, the post-send block: SendLog, counters or error_message
W_Post(w) ==
    /\ wk[w].pc = "post"
    /\ LET id == wk[w].task_id IN
       IF ~Stored(id)
       THEN /\ wk' = [wk EXCEPT ![w].pc = "after", ![w].client = FALSE]
            /\ UNCHANGED <<tasks, sendLog, errorLog, now>>
       ELSE /\ sendLog' = Append(sendLog,
                            SendLogRow(id, wk[w].chat_id, wk[w].success, wk[w].msg))
            /\ IF wk[w].success
               THEN /\ tasks' = [tasks EXCEPT ![id] = post_success(Row(id), now)]
                    /\ now' = now + 1
                    /\ wk' = [wk EXCEPT ![w].pc = "after", ![w].client = FALSE,
                                        ![w].nSend = @ + 1]
                    /\ UNCHANGED errorLog
               ELSE /\ tasks' = [tasks EXCEPT ![id] = post_failure(Row(id), wk[w].msg)]
                    /\ errorLog' = Append(errorLog,
                                     ErrorLogRow(id, "send failed", wk[w].msg))
                    /\ wk' = [wk EXCEPT ![w].pc = "after", ![w].client = FALSE,
                                        ![w].nSend = @ + 1, ![w].nErr = @ + 1]
                    /\ UNCHANGED now
    /\ UNCHANGED <<accounts, running, event, test, utcDay, localDay,
                   dispatched, nops, hist>>

\* _worker after _run_one_task: re-read the row, clear the event, wait
W_After(w) ==
    /\ wk[w].pc = "after"
    /\ IF ~Stored(wk[w].task_id)
       THEN /\ wk' = [wk EXCEPT ![w].pc = "select"]
            /\ UNCHANGED event
       ELSE /\ event' = [event EXCEPT !.isSet = FALSE]
            /\ LET b == interval_bounds(Row(wk[w].task_id)) IN
               \E d \in DelayChoices(b[1], b[2]) :
                 wk' = [wk EXCEPT ![w].pc = "sleep", ![w].waitOn = event.id,
                                  ![w].delay = d]
    /\ UNCHANGED <<store, running, test, clock, dispatched, nops, hist>>

\* ------------------------------------------------------ the runner API
\* start_runner(): the runner state the call leaves. A call while _running
\* returns at once; otherwise a new Event and a new _worker coroutine.
StartedRunner ==
    IF running
    THEN [running |-> running, event |-> event, wk |-> wk]
    ELSE LET w == CHOOSE x \in WorkerIds :
                    /\ wk[x].pc = "none"
                    /\ \A y \in WorkerIds : wk[y].pc = "none" => x <= y
         IN  [running |-> TRUE,
              event   |-> [id |-> event.id + 1, isSet |-> FALSE],
              wk      |-> [wk EXCEPT ![w] = [IdleWorker EXCEPT !.pc = "select"]]]

CanStartRunner == running \/ \E w \in WorkerIds : wk[w].pc = "none"

\* start_runner() called by any caller (counted with the commands)
StartRunner ==
    /\ nops < MaxOps
    /\ ~running
    /\ CanStartRunner
    /\ running' = StartedRunner.running
    /\ event' = StartedRunner.event
    /\ wk' = StartedRunner.wk
    /\ nops' = nops + 1
    /\ UNCHANGED <<store, test, clock, dispatched, hist>>

\* stop_runner()
StopRunner ==
    /\ nops < MaxOps
    /\ running
    /\ running' = FALSE
    /\ nops' = nops + 1
    /\ UNCHANGED <<store, event, wk, test, clock, dispatched, hist>>

\* ------------------------------------------- operator commands (bot.py)
\* The bot handles one update at a time: a command waits for the previous
\* handler (a test send in flight included) to return.
OperatorFree == test.pc = "idle" /\ nops < MaxOps

\* variant: the start also clears the daily counter
start_row_ResetsCounter(task) ==
    [task EXCEPT !.status = "active", !.error_message = NullText, !.sent_today = 0]

\* the row /task N start commits
start_row(task) == [task EXCEPT !.status = "active", !.error_message = NullText]

\* the row /task N pause commits
pause_row(task) == [task EXCEPT !.status = "paused"]

\* /task N start: status active, error cleared, start_runner, _wake_worker
StartTask(t) ==
    /\ OperatorFree
    /\ Stored(t)
    /\ CanStartRunner
    /\ tasks' = [tasks EXCEPT ![t] = start_row(@)]
    /\ running' = StartedRunner.running
    /\ wk' = StartedRunner.wk
    /\ event' = [StartedRunner.event EXCEPT !.isSet = TRUE]
    /\ hist' = [wakeReq |-> t,
                wokeFor |-> IF /\ Row(t).status # "active"
                               /\ \E w \in WorkerIds :
                                    wk[w].pc = "sleep" /\ wk[w].task_id # t
                            THEN t ELSE 0,
                fresh   |-> hist.fresh \ {t}]
    /\ nops' = nops + 1
    /\ UNCHANGED <<accounts, sendLog, errorLog, test, clock, dispatched>>

\* /task N pause
PauseTask(t) ==
    /\ OperatorFree
    /\ Stored(t)
    /\ tasks' = [tasks EXCEPT ![t] = pause_row(@)]
    /\ nops' = nops + 1
    /\ UNCHANGED <<accounts, sendLog, errorLog, running, event, wk, test, clock,
                   dispatched, hist>>

\* /task N delete: the row and its SendLog and ErrorLog rows
DeleteTask(t) ==
    /\ OperatorFree
    /\ Stored(t)
    /\ tasks' = [x \in DOMAIN tasks \ {t} |-> tasks[x]]
    /\ sendLog' = SelectSeq(sendLog, LAMBDA r : r.task_id # t)
    /\ errorLog' = SelectSeq(errorLog, LAMBDA r : r.task_id # t)
    /\ hist' = [hist EXCEPT !.fresh = @ \ {t}]
    /\ nops' = nops + 1
    /\ UNCHANGED <<accounts, running, event, wk, test, clock, dispatched>>

\* /edittask N, step edit_limits: the two numbers are stored as typed
EditLimits(t, daily, total) ==
    /\ OperatorFree
    /\ Stored(t)
    /\ tasks' = [tasks EXCEPT ![t].daily_limit = daily, ![t].total_limit = total]
    /\ nops' = nops + 1
    /\ UNCHANGED <<accounts, sendLog, errorLog, running, event, wk, test, clock,
                   dispatched, hist>>

\* /edittask N, step edit_chats
EditChats(t, chats) ==
    /\ OperatorFree
    /\ Stored(t)
    /\ tasks' = [tasks EXCEPT ![t].target_chat_ids = chats]
    /\ nops' = nops + 1
    /\ UNCHANGED <<accounts, sendLog, errorLog, running, event, wk, test, clock,
                   dispatched, hist>>

\* /edittask N, step edit_interval: stored when the input is accepted
EditInterval(t, parts) ==
    /\ OperatorFree
    /\ Stored(t)
    /\ parse_interval(parts) # Rejected
    /\ tasks' = [tasks EXCEPT ![t].interval_min_sec = parse_interval(parts)[1],
                              ![t].interval_max_sec = parse_interval(parts)[2]]
    /\ nops' = nops + 1
    /\ UNCHANGED <<accounts, sendLog, errorLog, running, event, wk, test, clock,
                   dispatched, hist>>

\* the id the store gives the next row
NextId ==
    IF DOMAIN tasks = {} THEN 1
    ELSE (CHOOSE m \in DOMAIN tasks : \A x \in DOMAIN tasks : x <= m) + 1

\* /newtask, the dialogue up to the row it commits at the limits step: the
\* interval step lets the dialogue go on only with an accepted input
CreateTask(chats, src, parts, daily, total) ==
    /\ OperatorFree
    /\ NextId <= NumTasks
    /\ parse_interval(parts) # Rejected
    /\ tasks' = [x \in DOMAIN tasks \cup {NextId} |->
                   IF x = NextId
                   THEN [NewTask(chats) EXCEPT
                           !.message_type = IF src # 0 THEN "forward" ELSE "text",
                           !.forward_source = src,
                           !.interval_min_sec = parse_interval(parts)[1],
                           !.interval_max_sec = parse_interval(parts)[2],
                           !.daily_limit = daily,
                           !.total_limit = total]
                   ELSE tasks[x]]
    /\ hist' = [hist EXCEPT !.fresh = @ \cup {NextId}]
    /\ nops' = nops + 1
    /\ UNCHANGED <<accounts, sendLog, errorLog, running, event, wk, test, clock,
                   dispatched>>

\* /edittask N, step edit_content: a forwarded post makes the task a
\* forward of that message (src > 0), a text makes it a text task (src = 0)
EditContent(t, src) ==
    /\ OperatorFree
    /\ Stored(t)
    /\ tasks' = [tasks EXCEPT ![t].message_type = IF src # 0 THEN "forward" ELSE "text",
                              ![t].forward_source = src]
    /\ nops' = nops + 1
    /\ UNCHANGED <<accounts, sendLog, errorLog, running, event, wk, test, clock,
                   dispatched, hist>>

\* /deactivate N
Deactivate(a) ==
    /\ OperatorFree
    /\ a \in DOMAIN accounts
    /\ accounts[a].is_active
    /\ accounts' = [accounts EXCEPT ![a].is_active = FALSE]
    /\ nops' = nops + 1
    /\ UNCHANGED <<tasks, sendLog, errorLog, running, event, wk, test, clock,
                   dispatched, hist>>

\* /task N test, run_one_send_test up to its send_or_forward_one call
TestBegin(t) ==
    /\ OperatorFree
    /\ Stored(t)
    /\ Row(t).session_id \in DOMAIN accounts
    /\ accounts[Row(t).session_id].is_active
    /\ get_target_chat_ids(Row(t)) # << >>
    /\ test' = [pc |-> "dispatch", task_id |-> t]
    /\ nops' = nops + 1
    /\ UNCHANGED <<store, running, event, wk, clock, dispatched, hist>>

\* variant: the test send is logged like a send of the loop
TestReturns_Logged ==
    /\ test.pc = "dispatch"
    /\ test' = [pc |-> "idle", task_id |-> 0]
    /\ sendLog' = Append(sendLog, SendLogRow(test.task_id, "@a", FALSE, "test"))
    /\ UNCHANGED <<tasks, accounts, errorLog, running, event, wk, clock,
                   dispatched, nops, hist>>

\* run_one_send_test returns (any outcome): nothing is written
TestReturns ==
    /\ test.pc = "dispatch"
    /\ test' = [pc |-> "idle", task_id |-> 0]
    /\ UNCHANGED <<store, running, event, wk, clock, dispatched, nops, hist>>

\* ------------------------------------------------------------ the clock
\* date.today() is the local date, last_reset_at is a UTC datetime: the two
\* dates change at different moments unless the host runs on UTC
LocalMidnight ==
    /\ localDay < MaxDay
    /\ localDay <= utcDay
    /\ localDay' = localDay + 1
    /\ UNCHANGED <<store, running, event, wk, test, now, utcDay, dispatched,
                   nops, hist>>

UtcMidnight ==
    /\ utcDay < MaxDay
    /\ utcDay <= localDay
    /\ utcDay' = utcDay + 1
    /\ UNCHANGED <<store, running, event, wk, test, now, localDay, dispatched,
                   nops, hist>>

\* ---------------------------------------------------------------- specs
WorkerStep(w) ==
    \/ W_Select(w)
    \/ W_IdleWake(w)
    \/ W_IdleTimeout(w)
    \/ W_Load(w)
    \/ W_ConnectOk(w)
    \/ W_ConnectUnauthorized(w)
    \/ W_ConnectRaises(w)
    \/ W_Gate(w)
    \/ W_DispatchReturns(w)
    \/ W_DispatchFlood(w)
    \/ W_CooldownEnds(w)
    \/ W_RetryReturns(w)
    \/ W_RetryFlood(w)
    \/ W_Post(w)
    \/ W_After(w)
    \/ W_SleepWake(w)
    \/ W_SleepTimeout(w)

OperatorStep ==
    \/ \E t \in TaskIds : StartTask(t)
    \/ \E t \in TaskIds : PauseTask(t)
    \/ \E t \in TaskIds : DeleteTask(t)
    \/ \E t \in TaskIds : \E d \in LimitValues : \E l \in LimitValues : EditLimits(t, d, l)
    \/ \E t \in TaskIds : \E c \in ChatChoices : EditChats(t, c)
    \/ \E a \in AccountIds : Deactivate(a)

ClockStep == LocalMidnight \/ UtcMidnight

\* the program as main.py wires it: start_runner once, stop_runner never
Next ==
    \/ \E w \in WorkerIds : WorkerStep(w)
    \/ OperatorStep

Spec == Init /\ [][Next]_vars

\* the same with the two dates advancing
NextDays ==
    \/ Next
    \/ ClockStep

SpecDays == Init /\ [][NextDays]_vars

\* the loop keeps taking steps: waits time out, calls return
SpecFair == Spec /\ WF_vars(\E w \in WorkerIds : WorkerStep(w))

\* the loop with tasks that forward a post of the source chat
NextForward ==
    \/ Next
    \/ \E t \in TaskIds : \E src \in ForwardSources \ {0} : EditContent(t, src)

SpecForward == Init /\ [][NextForward]_vars

\* tasks created and re-timed by the operator while the loop runs
NextInterval ==
    \/ \E w \in WorkerIds : WorkerStep(w)
    \/ \E parts \in IntervalInputs : CreateTask(<<"@a">>, 0, parts, 0, 0)
    \/ \E t \in TaskIds : \E parts \in IntervalInputs : EditInterval(t, parts)
    \/ \E t \in TaskIds : StartTask(t)

SpecInterval == InitEmpty /\ [][NextInterval]_vars

\* the same with the operator's delete
NextRetime ==
    \/ NextInterval
    \/ \E t \in TaskIds : DeleteTask(t)

SpecRetime == InitEmpty /\ [][NextRetime]_vars

\* tasks created and re-limited by the operator while the loop runs
NextLimits ==
    \/ \E w \in WorkerIds : WorkerStep(w)
    \/ \E d \in LimitInputs : \E l \in LimitInputs :
            CreateTask(<<"@a">>, 0, <<QuarterHour>>, d, l)
    \/ \E t \in TaskIds : \E d \in LimitInputs : \E l \in LimitInputs :
            EditLimits(t, d, l)
    \/ \E t \in TaskIds : StartTask(t)

SpecLimits == InitEmpty /\ [][NextLimits]_vars

\* the loop and all operator commands, /newtask included
NextLifecycle ==
    \/ Next
    \/ CreateTask(<<"@a">>, 0, <<QuarterHour>>, 0, 0)

SpecLifecycle == Init /\ [][NextLifecycle]_vars

\* the runner API driven by any caller, and the operator's test send
NextRunner ==
    \/ Next
    \/ StartRunner
    \/ StopRunner
    \/ \E t \in TaskIds : TestBegin(t)
    \/ TestReturns

SpecRunner == Init /\ [][NextRunner]_vars

\* =============================================================== claims
\* the post-send block commits a successful dispatch of worker w
PostSuccessStep(w) ==
    /\ wk[w].pc = "post"
    /\ wk'[w].pc = "after"
    /\ wk[w].success
    /\ Stored(wk[w].task_id)

\* C1 as stated: in every reachable state every task with dailyLimit > 0
\* has sentToday <= dailyLimit.  Refuted by edit_limits, which stores a
\* lower daily limit and leaves sent_today as it is.
C1_DailyLimitInvariant ==
    \A t \in DOMAIN tasks :
        tasks[t].daily_limit > 0 => tasks[t].sent_today <= tasks[t].daily_limit

\* C1 amended: every successful send leaves sentToday at or below the
\* dailyLimit that the pre-send gate of the same cycle read (when > 0).
C1_SendWithinGateLimit ==
    [][\A w \in WorkerIds :
         (PostSuccessStep(w) /\ wk[w].task.daily_limit > 0)
             => tasks'[wk[w].task_id].sent_today <= wk[w].task.daily_limit]_vars

\* a send was counted that brought sentToday up to the limit the gate read
C1_Witness ==
    \E w \in WorkerIds :
        /\ wk[w].pc = "after"
        /\ wk[w].success
        /\ wk[w].task.daily_limit > 0
        /\ Stored(wk[w].task_id)
        /\ Row(wk[w].task_id).sent_today = wk[w].task.daily_limit

\* C2 as stated: for every task with totalLimit > 0, in every reachable
\* state, status = Completed iff sentTotal >= totalLimit.  Refuted by
\* startTask on a Completed task and by edit_limits.
C2_CompletedIffQuotaReached ==
    \A t \in DOMAIN tasks :
        tasks[t].total_limit > 0 =>
            (tasks[t].status = "completed"
                <=> tasks[t].sent_total >= tasks[t].total_limit)

\* C2 amended: a row becomes Completed only in a commit that leaves it with
\* totalLimit set and sentTotal >= totalLimit, and every successful send
\* whose new sentTotal reaches totalLimit > 0 makes it Completed in that
\* same commit.
C2_CompletedByQuotaCommit ==
    [][\A t \in DOMAIN tasks \cap DOMAIN tasks' :
         /\ (tasks[t].status # "completed" /\ tasks'[t].status = "completed")
                => /\ tasks'[t].total_limit # 0
                   /\ tasks'[t].sent_total >= tasks'[t].total_limit
         /\ (/\ \E w \in WorkerIds : PostSuccessStep(w) /\ wk[w].task_id = t
             /\ tasks'[t].total_limit > 0
             /\ tasks'[t].sent_total >= tasks'[t].total_limit)
                => tasks'[t].status = "completed"]_vars

\* a successful send reached the total limit and the row is Completed
C2_Witness ==
    \E w \in WorkerIds :
        /\ wk[w].pc = "after"
        /\ wk[w].success
        /\ Stored(wk[w].task_id)
        /\ Row(wk[w].task_id).total_limit > 0
        /\ Row(wk[w].task_id).sent_total >= Row(wk[w].task_id).total_limit
        /\ Row(wk[w].task_id).status = "completed"

\* C3: the loop starts a dispatch only for a row that the pre-send gate
\* read with status Active.
C3_DispatchOnlyIfActiveAtGate ==
    [][\A w \in WorkerIds :
         (wk[w].pc = "gate" /\ wk'[w].pc = "dispatch")
             => /\ wk[w].task_id \in DOMAIN tasks
                /\ tasks[wk[w].task_id].status = "active"]_vars

\* a dispatch is in flight for a row the gate passed
C3_Witness ==
    \E w \in WorkerIds :
        /\ wk[w].pc = "dispatch"
        /\ wk[w].calls = 1
        /\ wk[w].task.status = "active"

\* C4: the select step takes, among the Active rows, the one with the
\* smallest (lastSentAt, id): NULL before every timestamp, ties by id; it
\* goes idle only when no row is Active.
C4_SelectsStalestActive ==
    [][\A w \in WorkerIds :
         (wk[w].pc = "select" /\ wk'[w].pc \in {"load", "idle"}) =>
            IF wk'[w].pc = "idle"
            THEN \A t \in DOMAIN tasks : tasks[t].status # "active"
            ELSE LET s == wk'[w].task_id IN
                 /\ s \in DOMAIN tasks
                 /\ tasks[s].status = "active"
                 /\ \A u \in DOMAIN tasks \ {s} :
                      tasks[u].status = "active" =>
                         LET ls == tasks[s].last_sent_at
                             lu == tasks[u].last_sent_at
                         IN  \/ ls = 0 /\ lu # 0
                             \/ ls = 0 /\ lu = 0 /\ s < u
                             \/ ls # 0 /\ lu # 0 /\ ls < lu
                             \/ ls # 0 /\ lu # 0 /\ ls = lu /\ s < u]_vars

\* a never-sent Active task was selected ahead of an Active task with a
\* smaller id that has already sent
C4_Witness ==
    \E w \in WorkerIds : \E u \in DOMAIN tasks :
        /\ wk[w].pc = "load"
        /\ u < wk[w].task_id
        /\ Stored(wk[w].task_id)
        /\ Row(u).status = "active"
        /\ Row(wk[w].task_id).status = "active"
        /\ Row(u).last_sent_at # 0
        /\ Row(wk[w].task_id).last_sent_at = 0

\* C5 as stated: after a second rate-limit signal in one cycle there were
\* two gateway calls and one ErrorEvent, and the cycle ends with one
\* SendAttempt with success = false.
C5_SecondFloodIsAFailedAttempt ==
    \A w \in WorkerIds :
        wk[w].floods >= 2 =>
            /\ wk[w].calls = 2
            /\ wk[w].nErr = 1
            /\ wk[w].pc # "post" => (wk[w].nSend = 1 /\ ~wk[w].success)

\* C6 as stated: no rate-limit signal raised by a dispatch ends the loop.
C6_LoopSurvivesDispatchException ==
    \A w \in WorkerIds : ~(wk[w].pc = "crashed" /\ wk[w].exc = "FloodWaitError")

\* C7 as stated: at most one dispatch (of the loop or of a test send) is in
\* flight at any time.
C7_OneDispatchInFlight ==
    Cardinality({w \in WorkerIds : wk[w].pc \in {"dispatch", "retry"}})
        + (IF test.pc = "dispatch" THEN 1 ELSE 0) <= 1

\* C8 as stated: a task that stays Active with an active account, quota
\* left and a target is dispatched again and again.  (Left out of the
\* statement, so that the refutation does not rest on them: runs in which
\* the loop has ended, the dispatch budget of the model is used up, or an
\* Active task waits for its daily reset.)
Eligible(t) ==
    /\ Stored(t)
    /\ Row(t).status = "active"
    /\ Row(t).session_id \in DOMAIN accounts
    /\ accounts[Row(t).session_id].is_active
    /\ ~daily_exhausted(Row(t))
    /\ ~total_reached(Row(t))
    /\ get_target_chat_ids(Row(t)) # << >>

Served(t) == \E w \in WorkerIds : wk[w].pc = "dispatch" /\ wk[w].task_id = t

LoopEnded == \E w \in WorkerIds : wk[w].pc \in {"crashed", "stopped"}

AwaitsDailyReset == \E t \in DOMAIN tasks : Row(t).status = "active" /\ daily_exhausted(Row(t))

C8_EligibleTaskIsServed ==
    \A t \in TaskIds :
        []<>(\/ ~Eligible(t)
             \/ Served(t)
             \/ LoopEnded
             \/ dispatched >= MaxDispatch
             \/ AwaitsDailyReset)

\* the (lastSentAt, id) key of row a sorts before that of row b
StalerThan(a, b) ==
    LET la == Row(a).last_sent_at
        lb == Row(b).last_sent_at
    IN  \/ la = 0 /\ lb # 0
        \/ la # 0 /\ lb # 0 /\ la < lb
        \/ la = lb /\ a < b

\* a select step of worker w that follows a wait ended by the start of a
\* task that is still Active
SelectAfterStart(w) ==
    /\ wk[w].pc = "select"
    /\ wk'[w].pc \in {"load", "idle"}
    /\ hist.wokeFor # 0
    /\ Stored(hist.wokeFor)
    /\ Row(hist.wokeFor).status = "active"

C10_WakeRequestEndsNextWait ==
    [][\A w \in WorkerIds :
         (/\ wk[w].pc \in {"idle", "sleep"}
          /\ wk'[w].pc = "select"
          /\ hist.wakeReq # 0
          /\ Stored(hist.wakeReq)
          /\ Row(hist.wakeReq).status = "active")
             => wk'[w].woken]_vars

\* the post-send block commits the outcome of worker w for a stored row
PostStep(w) ==
    /\ wk[w].pc = "post"
    /\ wk'[w].pc = "after"
    /\ Stored(wk[w].task_id)

\* C11: a dispatch that ends in a blocklist match has transmitted nothing
\* and is a failure, and its post-send commit appends exactly one
\* SendAttempt with success = false and leaves sentToday, sentTotal and
\* lastSentAt as they were.
C11_BlockedDispatchCountsNothing ==
    [][\A w \in WorkerIds :
         /\ wk'[w].msg = BlockedReason
                => (~wk'[w].success /\ wk'[w].nSent = 0)
         /\ (PostStep(w) /\ wk[w].msg = BlockedReason) =>
                LET id == wk[w].task_id IN
                /\ sendLog' = Append(sendLog,
                        SendLogRow(id, wk[w].chat_id, FALSE, BlockedReason))
                /\ id \in DOMAIN tasks'
                /\ tasks'[id].sent_today = tasks[id].sent_today
                /\ tasks'[id].sent_total = tasks[id].sent_total
                /\ tasks'[id].last_sent_at = tasks[id].last_sent_at]_vars

\* the cycle of an album forward ended in a blocklist match and was logged
C11_Witness ==
    \E w \in WorkerIds :
        /\ wk[w].pc = "after"
        /\ wk[w].msg = BlockedReason
        /\ wk[w].task.message_type = "forward"
        /\ Len(message_ids(wk[w].task.forward_source)) = 3
        /\ wk[w].nSend = 1
        /\ sendLog # << >>
        /\ sendLog[Len(sendLog)].message = BlockedReason

\* the row the pre-send gate of worker w decides on: the stored row after
\* any due daily reset
GateRow(w) == reset_daily_if_needed(Row(wk[w].task_id), localDay, utcDay)

\* the pre-send gate of worker w runs on a stored Active row
GateStep(w) ==
    /\ wk[w].pc = "gate"
    /\ wk'[w].pc # "gate"
    /\ Stored(wk[w].task_id)
    /\ Row(wk[w].task_id).status = "active"

\* C12: when the gate finds dailyLimit > 0 and sentToday >= dailyLimit
\* (after any due daily reset) the cycle ends without a dispatch, appends
\* no SendAttempt and no ErrorEvent, and leaves status Active and
\* errorMessage, sentTotal and lastSentAt as they were.
C12_DailySkipChangesNothing ==
    [][\A w \in WorkerIds :
         (/\ GateStep(w)
          /\ GateRow(w).daily_limit > 0
          /\ GateRow(w).sent_today >= GateRow(w).daily_limit) =>
            LET id == wk[w].task_id IN
            /\ wk'[w].pc = "after"
            /\ wk'[w].calls = 0
            /\ dispatched' = dispatched
            /\ sendLog' = sendLog
            /\ errorLog' = errorLog
            /\ id \in DOMAIN tasks'
            /\ tasks'[id].status = "active"
            /\ tasks'[id].error_message = tasks[id].error_message
            /\ tasks'[id].sent_total = tasks[id].sent_total
            /\ tasks'[id].last_sent_at = tasks[id].last_sent_at]_vars

\* the gate skipped a task that had used up its daily limit by its own sends
C12_Witness ==
    \E w \in WorkerIds :
        /\ wk[w].pc = "after"
        /\ wk[w].gate = "daily"
        /\ Stored(wk[w].task_id)
        /\ Row(wk[w].task_id).status = "active"
        /\ Row(wk[w].task_id).sent_today >= 1
        /\ Row(wk[w].task_id).sent_today = Row(wk[w].task_id).daily_limit

\* C13: the commit after a successful dispatch adds exactly 1 to sentToday
\* and to sentTotal, sets lastSentAt to the current time and, when
\* totalLimit > 0 and the new sentTotal >= totalLimit, sets status Completed;
\* no other step raises a counter or changes lastSentAt.
C13_SuccessCountsOnce ==
    [][/\ \A w \in WorkerIds :
            PostSuccessStep(w) =>
                LET id == wk[w].task_id IN
                /\ id \in DOMAIN tasks'
                /\ tasks'[id].sent_today = tasks[id].sent_today + 1
                /\ tasks'[id].sent_total = tasks[id].sent_total + 1
                /\ tasks'[id].last_sent_at = now
                /\ (tasks'[id].total_limit > 0
                      /\ tasks'[id].sent_total >= tasks'[id].total_limit)
                        => tasks'[id].status = "completed"
       /\ \A t \in DOMAIN tasks \cap DOMAIN tasks' :
            (\/ tasks'[t].sent_total # tasks[t].sent_total
             \/ tasks'[t].sent_today > tasks[t].sent_today
             \/ tasks'[t].last_sent_at # tasks[t].last_sent_at)
                => \E w \in WorkerIds : PostSuccessStep(w) /\ wk[w].task_id = t]_vars

\* a second successful send of a task was counted and the task stays Active
C13_Witness ==
    \E w \in WorkerIds :
        /\ wk[w].pc = "after"
        /\ wk[w].success
        /\ Stored(wk[w].task_id)
        /\ Row(wk[w].task_id).sent_total = 2
        /\ Row(wk[w].task_id).last_sent_at = now - 1
        /\ Row(wk[w].task_id).status = "active"

\* a dispatch of worker w ends with failure as its final outcome: the
\* post-send block commits a failed outcome, or the retry is rate-limited
\* again
FailureEnds(w) ==
    /\ Stored(wk[w].task_id)
    /\ \/ wk[w].pc = "post" /\ wk'[w].pc = "after" /\ ~wk[w].success
       \/ wk[w].pc = "retry" /\ wk'[w].pc \notin {"retry", "post"}

FinalReason(w) == IF wk[w].pc = "post" THEN wk[w].msg ELSE "FloodWait"

\* C14 as stated: after a dispatch whose final outcome is failure,
\* errorMessage is the failure reason, and status, sentToday, sentTotal and
\* lastSentAt are what they were.
C14_FailureLeavesReason ==
    [][\A w \in WorkerIds :
         FailureEnds(w) =>
            LET id == wk[w].task_id IN
            /\ id \in DOMAIN tasks'
            /\ tasks'[id].error_message = FinalReason(w)
            /\ tasks'[id].status = tasks[id].status
            /\ tasks'[id].sent_today = tasks[id].sent_today
            /\ tasks'[id].sent_total = tasks[id].sent_total
            /\ tasks'[id].last_sent_at = tasks[id].last_sent_at]_vars

\* the cycle of worker w is over (its history is kept until the next select)
CycleOver(w) == wk[w].pc \in {"after", "sleep", "select", "crashed", "stopped"}

\* C15 as stated: a cycle that called the gateway has appended exactly one
\* SendAttempt when it is over.
C15_OneAttemptPerDispatchCycle ==
    \A w \in WorkerIds :
        (CycleOver(w) /\ wk[w].calls >= 1 /\ Stored(wk[w].task_id))
            => wk[w].nSend = 1

\* C16: when the account of the selected task is missing or inactive the
\* cycle sets status Error with a message, opens no session and calls no
\* gateway; a task that is not Active becomes Active only by startTask, and
\* only Active tasks are selected.
C16_AccountUnavailableIsError ==
    [][/\ \A w \in WorkerIds :
            (/\ wk[w].pc = "load"
             /\ wk'[w].pc # "load"
             /\ Stored(wk[w].task_id)
             /\ Row(wk[w].task_id).status = "active"
             /\ \/ Row(wk[w].task_id).session_id \notin DOMAIN accounts
                \/ ~accounts[Row(wk[w].task_id).session_id].is_active) =>
                LET id == wk[w].task_id IN
                /\ id \in DOMAIN tasks'
                /\ tasks'[id].status = "error"
                /\ tasks'[id].error_message \notin {NullText, ""}
                /\ wk'[w].pc = "after"
                /\ ~wk'[w].client
                /\ wk'[w].calls = 0
                /\ dispatched' = dispatched
                /\ sendLog' = sendLog
       /\ \A t \in DOMAIN tasks \cap DOMAIN tasks' :
            (tasks[t].status # "active" /\ tasks'[t].status = "active") =>
                /\ tasks'[t].error_message = NullText
                /\ nops' = nops + 1
                /\ event'.isSet
       /\ \A w \in WorkerIds :
            (wk[w].pc = "select" /\ wk'[w].pc = "load") =>
                /\ wk'[w].task_id \in DOMAIN tasks
                /\ tasks[wk'[w].task_id].status = "active"]_vars

\* a cycle ended at the account check: the task is in status Error while
\* another task is Active
C16_Witness ==
    \E w \in WorkerIds : \E u \in DOMAIN tasks :
        /\ wk[w].pc = "after"
        /\ wk[w].calls = 0
        /\ wk[w].gate = "none"
        /\ ~wk[w].client
        /\ Stored(wk[w].task_id)
        /\ Row(wk[w].task_id).status = "error"
        /\ Row(wk[w].task_id).error_message = "session missing or disabled"
        /\ ~accounts[Row(wk[w].task_id).session_id].is_active
        /\ Row(u).status = "active"

\* C17 as stated: no failure to establish the dispatch session ends the
\* loop; the task is set to Error and the loop goes on.
C17_ConnectFailureIsTaskError ==
    \A w \in WorkerIds :
        ~(wk[w].pc = "crashed" /\ wk[w].exc = "ConnectError")

\* the gate of worker w runs on an Active row whose total quota is used up
GateOnSpentTask(w) ==
    /\ GateStep(w)
    /\ Row(wk[w].task_id).total_limit > 0
    /\ Row(wk[w].task_id).sent_total >= Row(wk[w].task_id).total_limit

C19_StopIsObservedInWaits ==
    [][\A w \in WorkerIds :
         ~running =>
            /\ (wk[w].pc = "sleep" /\ wk'[w].pc = "select")
                    => wk'[w].woken
            /\ (wk[w].pc = "select" /\ wk'[w].pc # "select")
                    => wk'[w].pc = "stopped"
            /\ (wk[w].pc \in {"dispatch", "retry"} /\ wk'[w].pc # wk[w].pc)
                    => wk'[w].pc \in {"cooldown", "post"}
            /\ PostStep(w) => Len(sendLog') = Len(sendLog) + 1]_vars

\* C20: every stored task has 20 <= intervalMin <= intervalMax <= 900, and
\* every inter-send delay lies in [intervalMin, intervalMax] of the row the
\* loop re-read after the dispatch.
C20_IntervalsInRange ==
    /\ [](\A t \in DOMAIN tasks :
            /\ 20 <= tasks[t].interval_min_sec
            /\ tasks[t].interval_min_sec <= tasks[t].interval_max_sec
            /\ tasks[t].interval_max_sec <= 900)
    /\ [][\A w \in WorkerIds :
            (wk[w].pc = "after" /\ wk'[w].pc = "sleep") =>
                /\ tasks[wk[w].task_id].interval_min_sec <= wk'[w].delay
                /\ wk'[w].delay <= tasks[wk[w].task_id].interval_max_sec]_vars

\* after a send, the loop waits 25 s on a task whose interval is 20..30
C20_Witness ==
    \E w \in WorkerIds :
        /\ wk[w].pc = "sleep"
        /\ wk[w].nSend = 1
        /\ wk[w].delay = 25
        /\ Stored(wk[w].task_id)
        /\ Row(wk[w].task_id).interval_min_sec = 20
        /\ Row(wk[w].task_id).interval_max_sec = 30

\* C21 as stated: every stored task has dailyLimit >= 0 and totalLimit >= 0.
C21_LimitsNonNegative ==
    \A t \in DOMAIN tasks :
        tasks[t].daily_limit >= 0 /\ tasks[t].total_limit >= 0

\* C22 as stated: every stored task has a non-empty target list.
C22_TargetsNonEmpty ==
    \A t \in DOMAIN tasks : get_target_chat_ids(tasks[t]) # << >>

\* C23 as stated: a task created and not yet started is Paused with zero
\* counters, and nothing the scheduler owns in its row has been written.
C23_FreshTaskIsUntouched ==
    \A t \in hist.fresh :
        /\ Stored(t)
        /\ Row(t).status = "paused"
        /\ Row(t).sent_today = 0
        /\ Row(t).sent_total = 0
        /\ Row(t).last_sent_at = 0
        /\ Row(t).last_reset_at = 0
        /\ Row(t).error_message = NullText
        /\ \A i \in 1..Len(sendLog) : sendLog[i].task_id # t

\* C24: a startTask step, from whatever status, leaves the task Active with
\* errorMessage null and the Wake Signal set, and changes no other field of
\* the row, no other row and no log; a pauseTask step sets status Paused and
\* changes nothing else in the store, the event or the loop.
C24_StartAndPauseFrame ==
    [][\A t \in TaskIds :
        /\ StartTask(t) =>
              /\ tasks' = [tasks EXCEPT ![t].status = "active",
                                        ![t].error_message = NullText]
              /\ event'.isSet
              /\ UNCHANGED <<accounts, sendLog, errorLog>>
        /\ PauseTask(t) =>
              /\ tasks' = [tasks EXCEPT ![t].status = "paused"]
              /\ UNCHANGED <<accounts, sendLog, errorLog, event, running, wk>>
      ]_vars

\* a task that reached its total quota and was completed is Active again
\* after startTask, counters kept
C24_Witness ==
    /\ hist.wakeReq = 1
    /\ Stored(1)
    /\ Row(1).status = "active"
    /\ Row(1).error_message = NullText
    /\ Row(1).sent_today >= 1
    /\ total_reached(Row(1))
    /\ event.isSet

\* C25 as stated: after a delete no log row carries the deleted task's id,
\* i.e. every SendAttempt and every ErrorEvent belongs to a stored task.
C25_LogsBelongToStoredTasks ==
    /\ \A i \in 1..Len(sendLog) : sendLog[i].task_id \in DOMAIN tasks
    /\ \A i \in 1..Len(errorLog) : errorLog[i].task_id \in DOMAIN tasks

\* the step with which the cycle of worker w ends
CycleEnds(w) ==
    /\ wk[w].pc \in {"load", "connect", "gate", "dispatch", "cooldown",
                     "retry", "post"}
    /\ wk'[w].pc \in {"after", "crashed"}

\* C26 as stated: a cycle on a task that is still Active when the cycle
\* ends, ending without a successful send and without a quota skip, leaves
\* a non-empty errorMessage on the task and at least one log entry written
\* by that cycle.
C26_NoSilentDrops ==
    [][\A w \in WorkerIds :
         (/\ CycleEnds(w)
          /\ Stored(wk[w].task_id)
          /\ Row(wk[w].task_id).status = "active"
          /\ ~(wk[w].pc = "post" /\ wk[w].success)
          /\ wk'[w].gate \notin {"daily", "total"})
         => LET id == wk[w].task_id IN
            /\ id \in DOMAIN tasks'
            /\ tasks'[id].error_message \notin {NullText, ""}
            /\ wk'[w].nSend + wk'[w].nErr >= 1
      ]_vars

\* the gate of worker w runs on a stored Active row whose daily reset is due
GateResetStep(w) ==
    /\ GateStep(w)
    /\ \/ IsNull(Row(wk[w].task_id).last_reset_at)
       \/ localDay > Row(wk[w].task_id).last_reset_at

\* C27 as stated: the gate evaluation that finds the reset due sets
\* sentToday = 0 and lastResetAt = now, and after it no reset of that task
\* is due until the date changes again.
C27_ResetOncePerDay ==
    [][\A w \in WorkerIds :
         GateResetStep(w) =>
            LET id == wk[w].task_id IN
            /\ tasks'[id].sent_today = 0
            /\ tasks'[id].last_reset_at = utcDay
            /\ ~(localDay > tasks'[id].last_reset_at)
      ]_vars

\* C28: the gate evaluation that finds the daily reset due commits
\* sentToday = 0 and lastResetAt = now whichever way the gate then goes
\* (quota skip, completion, empty targets, dispatch), and no later step of
\* the cycle other than the commit of a successful send changes sentToday
\* or lastResetAt of the task.
C28_ResetIsPersistedAtTheGate ==
    [][\A w \in WorkerIds :
         LET id == wk[w].task_id IN
         /\ GateResetStep(w) =>
               /\ id \in DOMAIN tasks'
               /\ tasks'[id].sent_today = 0
               /\ tasks'[id].last_reset_at = utcDay
               /\ wk'[w].gate \in {"daily", "total", "targets", "pass"}
         /\ (/\ wk[w].pc \in {"dispatch", "cooldown", "retry", "post", "after"}
             /\ wk'[w] # wk[w]
             /\ ~PostSuccessStep(w)
             /\ Stored(id))
            => /\ id \in DOMAIN tasks'
               /\ tasks'[id].sent_today = tasks[id].sent_today
               /\ tasks'[id].last_reset_at = tasks[id].last_reset_at
      ]_vars

\* on the second day the gate reset the counter of a task and then completed it
C28_Witness ==
    \E w \in WorkerIds :
        /\ wk[w].pc = "after"
        /\ wk[w].gate = "total"
        /\ Stored(wk[w].task_id)
        /\ utcDay = MaxDay
        /\ Row(wk[w].task_id).last_reset_at = utcDay
        /\ Row(wk[w].task_id).sent_today = 0
        /\ Row(wk[w].task_id).sent_total >= 1
        /\ Row(wk[w].task_id).status = "completed"

\* C29 as stated: on a rate-limit signal the ErrorEvent is recorded before
\* the wait, the retry follows the wait and is made once, with the task
\* content and the target of the first call; while a cooldown lasts no other
\* task is selected or dispatched, by a loop or by a test send.
C29_CooldownThenOneRetry ==
    [][\A w \in WorkerIds :
         LET id == wk[w].task_id IN
         /\ (wk[w].pc = "dispatch" /\ wk'[w].pc = "cooldown")
               => errorLog' = Append(errorLog,
                                     ErrorLogRow(id, "FloodWait", "seconds"))
         /\ (wk[w].pc # "retry" /\ wk'[w].pc = "retry")
               => /\ wk[w].pc = "cooldown"
                  /\ wk'[w].calls = 2
         /\ wk[w].pc \in {"dispatch", "cooldown", "retry"}
               => /\ wk'[w].pc \in {"dispatch", "cooldown", "retry", "post",
                                    "crashed"}
                  /\ wk'[w].task = wk[w].task
                  /\ wk'[w].chat_id = wk[w].chat_id
                  /\ wk'[w].task_id = id
         /\ (wk[w].pc = "cooldown" /\ wk'[w].pc = "cooldown")
               => /\ \A v \in WorkerIds \ {w} :
                        wk'[v].pc \in {"load", "dispatch", "retry"}
                            => wk'[v].pc = wk[v].pc
                  /\ (test'.pc = "dispatch" /\ test'.task_id # id)
                        => test.pc = "dispatch"
      ]_vars

\* C30 as stated: after a cycle that called no gateway and left the task in
\* status Error, the loop goes back to the staleness query without the
\* inter-send wait.
C30_ErrorCycleSkipsWait ==
    [][\A w \in WorkerIds :
         (/\ wk[w].pc = "after"
          /\ wk'[w].pc # "after"
          /\ wk[w].calls = 0
          /\ Stored(wk[w].task_id)
          /\ Row(wk[w].task_id).status = "error")
         => wk'[w].pc = "select"
      ]_vars

\* C31: the step after the cycle re-reads the row: if it is stored, the
\* wait that follows lies within the bounds of the interval stored at that
\* moment (an edit committed during the dispatch included); if it is not,
\* the loop goes to the next cycle without a wait.
C31_DelayFromRereadRow ==
    [][\A w \in WorkerIds :
         (wk[w].pc = "after" /\ wk'[w].pc # "after") =>
            LET id == wk[w].task_id IN
            IF id \in DOMAIN tasks
            THEN LET lo == IF tasks[id].interval_min_sec < MinInterval
                           THEN MinInterval ELSE tasks[id].interval_min_sec
                     hi == IF tasks[id].interval_max_sec < lo
                           THEN lo ELSE tasks[id].interval_max_sec
                 IN  /\ wk'[w].pc = "sleep"
                     /\ lo <= wk'[w].delay
                     /\ wk'[w].delay <= hi
            ELSE /\ wk'[w].pc = "select"
                 /\ UNCHANGED event
      ]_vars

\* the interval was edited from 900 to 20 while the dispatch was in flight,
\* and the wait that follows is 20
C31_Witness ==
    \E w \in WorkerIds :
        /\ wk[w].pc = "sleep"
        /\ wk[w].calls >= 1
        /\ Stored(wk[w].task_id)
        /\ wk[w].task.interval_min_sec = MaxInterval
        /\ Row(wk[w].task_id).interval_max_sec = MinInterval
        /\ wk[w].delay = MinInterval

\* the ids of the Active tasks in the store
ActiveNow == {t \in DOMAIN tasks : tasks[t].status = "active"}

\* C32: a query that finds no Active task writes nothing to the store,
\* clears the Wake Signal and enters the idle wait; the idle wait ends only
\* by going back to the query, by the wake when the signal of the wait is
\* set and by the timeout otherwise, writing nothing; and the query that
\* finds an Active task selects one.
C32_IdleCycle ==
    [][\A w \in WorkerIds :
         /\ (wk[w].pc = "select" /\ wk'[w] # wk[w] /\ running /\ ActiveNow = {})
               => /\ wk'[w].pc = "idle"
                  /\ ~event'.isSet
                  /\ wk'[w].waitOn = event'.id
                  /\ UNCHANGED store
         /\ (wk[w].pc = "idle" /\ wk'[w] # wk[w])
               => /\ wk'[w].pc = "select"
                  /\ wk'[w].woken = (event.id = wk[w].waitOn /\ event.isSet)
                  /\ UNCHANGED <<store, event>>
         /\ (wk[w].pc = "select" /\ wk'[w] # wk[w] /\ running /\ ActiveNow # {})
               => /\ wk'[w].pc = "load"
                  /\ wk'[w].task_id \in ActiveNow
      ]_vars

\* the first command was a startTask that ended the idle wait of the loop
C32_Witness ==
    \E w \in WorkerIds :
        /\ wk[w].pc = "select"
        /\ wk[w].woken
        /\ nops = 1
        /\ ActiveNow # {}

\* the clients that are connected: one per loop between the connect and the
\* finally of _run_one_task, one for a test send in flight
OpenSessions ==
    Cardinality({w \in WorkerIds : wk[w].client})
        + (IF test.pc = "dispatch" THEN 1 ELSE 0)

\* C33 as stated: a loop holds a session only inside its cycle, between the
\* connect and the end of the cycle, and at most one session is open at any
\* time.
C33_SessionsReleasedAndSingle ==
    /\ \A w \in WorkerIds :
          wk[w].client
              => wk[w].pc \in {"gate", "dispatch", "cooldown", "retry", "post"}
    /\ OpenSessions <= 1

\* the messages forwarded together with message src
AlbumOf(src) ==
    {src} \cup {i \in 1..Len(SourceChat) :
                  /\ SourceChat[src].grouped_id # 0
                  /\ SourceChat[i].grouped_id = SourceChat[src].grouped_id}

\* message i names a blocked phrase, in whatever case
NamesBlockedPhrase(i) ==
    \E k \in 1..Len(FORWARD_BLOCKLIST) :
        \/ Contains(Lower(SourceChat[i].text), FORWARD_BLOCKLIST[k])
        \/ Contains(Lower(SourceChat[i].message), FORWARD_BLOCKLIST[k])

\* the forward of worker w points at an album (or a message) that names a
\* blocked phrase
ForwardIsBlocked(w) ==
    /\ wk[w].task.message_type = "forward"
    /\ wk[w].task.forward_source \in 1..Len(SourceChat)
    /\ \E i \in AlbumOf(wk[w].task.forward_source) : NamesBlockedPhrase(i)

\* C34: when a gateway call returns, a forward whose album names a blocked
\* phrase in any of its messages, in whatever case, has transmitted nothing
\* and is a failure; the content-blocked reason is given for such forwards
\* only, never for Text content; and a forward that succeeds has transmitted
\* the whole album.
C34_FilterOnForwardedAlbums ==
    [][\A w \in WorkerIds :
         (wk[w].pc \in {"dispatch", "retry"} /\ wk'[w].pc = "post") =>
            /\ ForwardIsBlocked(w)
                  => /\ ~wk'[w].success
                     /\ wk'[w].nSent = wk[w].nSent
            /\ wk'[w].msg = BlockedReason => ForwardIsBlocked(w)
            /\ (wk[w].task.message_type = "forward" /\ wk'[w].success)
                  => wk'[w].nSent = wk[w].nSent
                        + Cardinality(AlbumOf(wk[w].task.forward_source))
            /\ wk[w].task.message_type = "text"
                  => (wk'[w].success => wk'[w].nSent = wk[w].nSent + 1)
      ]_vars

\* the forward source is the first message of the album, which is clean;
\* the phrase is in another message of the album; the call returned blocked
C34_Witness ==
    \E w \in WorkerIds :
        /\ wk[w].pc = "post"
        /\ wk[w].msg = BlockedReason
        /\ ~wk[w].success
        /\ wk[w].nSent = 0
        /\ ~NamesBlockedPhrase(wk[w].task.forward_source)
        /\ Cardinality(AlbumOf(wk[w].task.forward_source)) = 3

\* worker w enters a timed wait (the idle wait or the inter-send wait)
WaitBegins(w) ==
    /\ wk[w].pc \notin {"idle", "sleep"}
    /\ wk'[w].pc \in {"idle", "sleep"}

\* C35 as stated: a set issued since the last wait ended, however many
\* times, is still there when the next timed wait begins, so that this wait
\* returns early; a wait that begins with no such set pending begins with
\* the signal clear and blocks.
C35_PendingSetEndsNextWait ==
    [][\A w \in WorkerIds :
         WaitBegins(w) =>
            IF hist.wakeReq # 0 /\ event.isSet
            THEN event'.isSet
            ELSE ~event'.isSet
      ]_vars

\* C36 as stated: a step of the loop changes the status of a task only
\* from Active, and only to Completed or Error.
C36_SchedulerMovesOnlyActiveTasks ==
    [][\A w \in WorkerIds :
         wk'[w] # wk[w] =>
            \A t \in DOMAIN tasks \cap DOMAIN tasks' :
                tasks'[t].status # tasks[t].status
                    => /\ tasks[t].status = "active"
                       /\ tasks'[t].status \in {"completed", "error"}
      ]_vars

\* the SendAttempt records of task t with success = true
SuccessLogs(t) ==
    {i \in 1..Len(sendLog) : sendLog[i].task_id = t /\ sendLog[i].success}

\* C37: for every stored task sentTotal is the number of its successful
\* SendAttempt records; from one state to the next sentTotal and lastSentAt
\* of a stored task do not decrease, and sentToday decreases only in a gate
\* step that makes the daily reset of that task, to 0.
C37_CountersAgreeWithLog ==
    /\ [](\A t \in DOMAIN tasks :
            tasks[t].sent_total = Cardinality(SuccessLogs(t)))
    /\ [][\A t \in DOMAIN tasks \cap DOMAIN tasks' :
            /\ tasks'[t].sent_total >= tasks[t].sent_total
            /\ tasks'[t].last_sent_at >= tasks[t].last_sent_at
            /\ tasks'[t].sent_today < tasks[t].sent_today
                  => /\ tasks'[t].sent_today = 0
                     /\ \E w \in WorkerIds :
                           GateResetStep(w) /\ wk[w].task_id = t
       ]_vars

\* a task sent on two days: two successful records, the daily counter reset
\* in between
C37_Witness ==
    \E t \in DOMAIN tasks :
        /\ tasks[t].sent_total = 2
        /\ Cardinality(SuccessLogs(t)) = 2
        /\ tasks[t].sent_today = 1

\* the _worker coroutines that have been created and have not ended
LiveWorkers == {w \in WorkerIds : wk[w].pc \notin {"none", "stopped", "crashed"}}

\* C38 as stated: at most one worker loop is alive, whatever start_runner
\* and stop_runner calls were made.
C38_AtMostOneWorker == Cardinality(LiveWorkers) <= 1

\* C39: a step of the operator's test send, its start and its return with
\* whatever outcome, leaves every task row and both logs as they were, and
\* a test send in flight ends with its one call: it does not go on to a
\* second one.
C39_TestSendWritesNothing ==
    [][test' # test =>
          /\ UNCHANGED <<tasks, accounts, sendLog, errorLog>>
          /\ test.pc = "dispatch" => test'.pc = "idle"
          /\ test.pc = "idle" => (test'.pc = "dispatch" /\ Stored(test'.task_id))
      ]_vars

\* a test send of a Paused task is in flight while the loop is inside the
\* cycle of another task; nothing has been logged
C39_Witness ==
    /\ test.pc = "dispatch"
    /\ Stored(test.task_id)
    /\ Row(test.task_id).status = "paused"
    /\ Row(test.task_id).sent_total = 0
    /\ \E w \in WorkerIds : wk[w].pc = "dispatch" /\ wk[w].task_id # test.task_id
    /\ sendLog = << >>
    /\ errorLog = << >>

====
